---- MODULE Spec2Model ----
(***************************************************************************)
(* Monte Carlo Tree Search of src/tictactoe/mcts_modified.py.              *)
(*                                                                         *)
(* The search (traverse_nodes, expand_leaf, rollout, backpropagate, ucb,   *)
(* get_best_action, think) is translated from the source.  The game        *)
(* (p2_t3.Board) and the node class (mcts_node.MCTSNode) are imported by   *)
(* the source and are modelled from the interface the search requires:     *)
(* a board is a row of cells, one per sub-board, each cell having a fixed  *)
(* effect when it is played; every assignment of effects to cells is a     *)
(* board, so that wins, losses, draws, captures for either side and        *)
(* neutral moves occur in every order of legal_actions.                    *)
(***************************************************************************)
EXTENDS Integers, Sequences, FiniteSets, TLC

\* Bounds of the model.
MaxCells == 3
MaxNumNodes == 5

\* Program constants.
explore_faction == 2
SENTINEL == -999999

\* None, for an action and for points_values of a state that has not ended.
None == <<>>

VARIABLES
    board,          \* think's argument board: the game setup
    current_state,  \* think's argument current_state
    num_nodes,      \* the module's iteration count
    bot_identity,   \* think: bot_identity
    tree,           \* the MCTSNode objects, by handle 1..Len(tree); 1 is root_node
    pc,             \* think's position: "loop", "expand", "rollout", "done", "crashed"
    iter,           \* completed iterations of the loop in think
    leafNode,       \* think: leafNode
    leafState,      \* think: newState as returned by traverse_nodes
    newLeaf,        \* think: newLeaf
    newState,       \* think: newState after expand_leaf, then rollout's state
    best_action,    \* think: best_action
    err,            \* the exception that ended think, "" when none
    sims,           \* history: the endpoint and value of each completed backpropagate
    rstep,          \* history: the last step of rollout
    zeroRet         \* history: traverse_nodes took the early return of line 39

vars == <<board, current_state, num_nodes, bot_identity, tree, pc, iter, leafNode,
          leafState, newLeaf, newState, best_action, err, sims, rstep, zeroRet>>

-----------------------------------------------------------------------------
(* The Game Abstraction: p2_t3.Board.                                      *)

\* The effect of playing a cell: it wins the game for the mover, loses it,
\* draws it, captures the cell's sub-board for the mover (S) or for the
\* enemy (E), or is neutral.
Kinds == {"W", "L", "D", "S", "E", "N"}

Ending == {"W", "L", "D"}

Boards ==
    { [kind |-> k, termLegal |-> t] :
        k \in UNION { [1..n -> Kinds] : n \in 1..MaxCells }, t \in BOOLEAN }

\* An action is (R, C, r, c); cell i lies in sub-board (R, C) of its own.
Action(i) == <<(i - 1) \div 3, (i - 1) % 3, 0, 0>>

CellOf(action) == 3 * action[1] + action[2] + 1

KindOf(b, action) == b.kind[CellOf(action)]

AllActions(b) == [i \in 1..Len(b.kind) |-> Action(i)]

Played(state) == {state[i] : i \in 1..Len(state)}

\* The player who made the i-th move.
Mover(i) == 1 + ((i - 1) % 2)

current_player(b, state) == 1 + (Len(state) % 2)

next_state(b, state, action) == Append(state, action)

EndingMoves(b, state) == {i \in 1..Len(state) : KindOf(b, state[i]) \in Ending}

is_ended(b, state) ==
    EndingMoves(b, state) # {} \/ Len(state) >= Len(b.kind)

\* The score of player 1 in an ended state; player 2 has the opposite.
Score1(b, state) ==
    LET ends == EndingMoves(b, state) IN
    IF ends = {} THEN 0
    ELSE LET i == CHOOSE j \in ends : \A k \in ends : j <= k
             k == KindOf(b, state[i])
             s == IF k = "W" THEN 1 ELSE IF k = "L" THEN -1 ELSE 0
         IN  IF Mover(i) = 1 THEN s ELSE -s

points_values(b, state) ==
    IF is_ended(b, state) THEN <<Score1(b, state), -Score1(b, state)>> ELSE None

\* The cells not played yet, in board order; an ended state lists them or
\* nothing, as the board has it.
legal_actions(b, state) ==
    IF is_ended(b, state) /\ ~b.termLegal THEN <<>>
    ELSE SelectSeq(AllActions(b), LAMBDA a : a \notin Played(state))

Boxes(b) == {<<Action(i)[1], Action(i)[2]>> : i \in 1..Len(b.kind)}

BoxOwner(b, state, box) ==
    LET at == {i \in 1..Len(state) : <<state[i][1], state[i][2]>> = box} IN
    IF at = {} THEN 0
    ELSE LET i == CHOOSE j \in at : TRUE
             k == KindOf(b, state[i])
         IN  IF k = "S" THEN Mover(i)
             ELSE IF k = "E" THEN 3 - Mover(i)
             ELSE 0

owned_boxes(b, state) == [box \in Boxes(b) |-> BoxOwner(b, state, box)]

\* The states think may be given: the empty board, or one move played.
StartStates(b) == {<<>>, <<Action(1)>>}

-----------------------------------------------------------------------------
(* mcts_node.MCTSNode.                                                     *)

MCTSNode(parent, parent_action, action_list) ==
    [parent |-> parent, parent_action |-> parent_action, child_nodes |-> <<>>,
     untried_actions |-> action_list, wins |-> 0, visits |-> 0]

\* child_nodes is a dict in insertion order: a sequence of [key, node].
DictKeys(d) == [i \in 1..Len(d) |-> d[i].key]

DictHas(d, k) == \E i \in 1..Len(d) : d[i].key = k

DictSet(d, k, v) ==
    IF DictHas(d, k)
    THEN [i \in 1..Len(d) |-> IF d[i].key = k THEN [key |-> k, node |-> v] ELSE d[i]]
    ELSE Append(d, [key |-> k, node |-> v])

-----------------------------------------------------------------------------
(* Float arithmetic, in thousandths.                                       *)

Milli == 1000

\* log(n) in thousandths, n in 1..12.
LnMilli(n) ==
    <<0, 693, 1099, 1386, 1609, 1792, 1946, 2079, 2197, 2303, 2398, 2485>>[n]

RECURSIVE ISqrtIn(_, _, _)
ISqrtIn(x, lo, hi) ==
    IF lo >= hi THEN lo
    ELSE LET mid == (lo + hi + 1) \div 2 IN
         IF mid * mid <= x THEN ISqrtIn(x, mid, hi) ELSE ISqrtIn(x, lo, mid - 1)

\* floor(sqrt(x)), 0 <= x < 4000000.
ISqrt(x) == ISqrtIn(x, 0, 2000)

\* A quotient wins / visits kept exact, as <<numerator, denominator>>.
RateGreater(a, b) == a[1] * b[2] > b[1] * a[2]

-----------------------------------------------------------------------------
(* ucb, lines 167-182.                                                     *)

\* What ucb raises: a division by node.visits = 0, or log of parent.visits = 0.
ucb_raises(t, node) ==
    IF t[node].visits = 0 THEN "ZeroDivisionError"
    ELSE IF t[t[node].parent].visits <= 0 THEN "ValueError"
    ELSE ""

\* The two branches exchanged.
ucb_swapped(t, node, is_opponent) ==
    LET wins == t[node].wins
        visits == t[node].visits
        explore == explore_faction
                     * ISqrt((LnMilli(t[t[node].parent].visits) * Milli) \div visits)
    IN  IF is_opponent
        THEN (Milli - (wins * Milli) \div visits) + explore
        ELSE (wins * Milli) \div visits + explore

ucb(t, node, is_opponent) ==
    LET wins == t[node].wins
        visits == t[node].visits
        explore == explore_faction
                     * ISqrt((LnMilli(t[t[node].parent].visits) * Milli) \div visits)
    IN  IF is_opponent
        THEN (wins * Milli) \div visits + explore
        ELSE (Milli - (wins * Milli) \div visits) + explore

-----------------------------------------------------------------------------
(* traverse_nodes, lines 9-55.                                             *)

\* Line 41: the score of a child of the node whose state is given.
ChildUCB(b, t, childNode, state, bot) ==
    ucb(t, childNode, bot = current_player(b, state))

\* The loop of lines 36-47 from the i-th child on; best is the triple
\* bestUCB, bestNode, bestAction.
RECURSIVE ScanChildren(_, _, _, _, _, _, _)
ScanChildren(b, t, currentNode, state, bot, i, best) ==
    LET kids == t[currentNode].child_nodes IN
    IF i > Len(kids)
    THEN [tag |-> "end", node |-> best.node, action |-> best.action, err |-> ""]
    ELSE LET child == kids[i].key
             childNode == kids[i].node
         IN  IF t[childNode].visits = 0 \/ Len(t[currentNode].untried_actions) > 0
             THEN [tag |-> "return", node |-> childNode, action |-> child, err |-> ""]
             ELSE IF ucb_raises(t, childNode) # ""
             THEN [tag |-> "raise", node |-> 0, action |-> None,
                   err |-> ucb_raises(t, childNode)]
             ELSE LET childUCB == ChildUCB(b, t, childNode, state, bot) IN
                  ScanChildren(b, t, currentNode, state, bot, i + 1,
                      IF childUCB > best.ucb
                      THEN [ucb |-> childUCB, node |-> childNode, action |-> child]
                      ELSE best)

\* Line 53 with state in the place of newState.
RECURSIVE traverse_nodes_samestate(_, _, _, _, _)
traverse_nodes_samestate(b, t, node, state, bot) ==
    IF Len(t[node].untried_actions) < 1 /\ ~is_ended(b, state)
    THEN LET r == ScanChildren(b, t, node, state, bot, 1,
                      [ucb |-> SENTINEL * Milli, node |-> 0, action |-> None])
         IN  IF r.tag = "return"
             THEN [node |-> r.node, state |-> next_state(b, state, r.action),
                   err |-> "", zero |-> TRUE]
             ELSE IF r.tag = "raise"
             THEN [node |-> node, state |-> state, err |-> r.err, zero |-> FALSE]
             ELSE IF r.node = 0
             THEN [node |-> node, state |-> state, err |-> "TypeError", zero |-> FALSE]
             ELSE traverse_nodes_samestate(b, t, r.node, state, bot)
    ELSE [node |-> node, state |-> state, err |-> "", zero |-> FALSE]

\* Returns node and state, err when an exception is raised, and zero when
\* the return of line 39 was taken.
RECURSIVE traverse_nodes(_, _, _, _, _)
traverse_nodes(b, t, node, state, bot) ==
    IF Len(t[node].untried_actions) < 1 /\ ~is_ended(b, state)
    THEN LET r == ScanChildren(b, t, node, state, bot, 1,
                      [ucb |-> SENTINEL * Milli, node |-> 0, action |-> None])
         IN  IF r.tag = "return"
             THEN [node |-> r.node, state |-> next_state(b, state, r.action),
                   err |-> "", zero |-> TRUE]
             ELSE IF r.tag = "raise"
             THEN [node |-> node, state |-> state, err |-> r.err, zero |-> FALSE]
             ELSE IF r.node = 0
             THEN [node |-> node, state |-> state, err |-> "TypeError", zero |-> FALSE]
             ELSE traverse_nodes(b, t, r.node, next_state(b, state, r.action), bot)
    ELSE [node |-> node, state |-> state, err |-> "", zero |-> FALSE]

-----------------------------------------------------------------------------
(* expand_leaf, lines 57-87.                                               *)

\* list.pop(): the last element is removed and returned.
Pop(list) == SubSeq(list, 1, Len(list) - 1)

\* untried_actions is read and not popped.
expand_leaf_keep(b, t, node, state) ==
    IF Len(t[node].untried_actions) > 0
    THEN LET parentAction == t[node].untried_actions[Len(t[node].untried_actions)]
             nextState == next_state(b, state, parentAction)
             actionList == legal_actions(b, nextState)
             newNode == Len(t) + 1
             t2 == Append(t, MCTSNode(node, parentAction, actionList))
         IN  [tree |-> [t2 EXCEPT ![node].child_nodes = DictSet(@, parentAction, newNode)],
              node |-> newNode, state |-> nextState]
    ELSE [tree |-> t, node |-> node, state |-> state]

\* Without line 82: the new node is not put in child_nodes.
expand_leaf_unregistered(b, t, node, state) ==
    IF Len(t[node].untried_actions) > 0
    THEN LET parentAction == t[node].untried_actions[Len(t[node].untried_actions)]
             popped == [t EXCEPT ![node].untried_actions = Pop(@)]
             nextState == next_state(b, state, parentAction)
             actionList == legal_actions(b, nextState)
             newNode == Len(popped) + 1
         IN  [tree |-> Append(popped, MCTSNode(node, parentAction, actionList)),
              node |-> newNode, state |-> nextState]
    ELSE [tree |-> t, node |-> node, state |-> state]

\* pop(0): the first untried action is taken.
expand_leaf_first(b, t, node, state) ==
    IF Len(t[node].untried_actions) > 0
    THEN LET parentAction == t[node].untried_actions[1]
             popped == [t EXCEPT ![node].untried_actions = Tail(@)]
             nextState == next_state(b, state, parentAction)
             actionList == legal_actions(b, nextState)
             newNode == Len(popped) + 1
             t2 == Append(popped, MCTSNode(node, parentAction, actionList))
         IN  [tree |-> [t2 EXCEPT ![node].child_nodes = DictSet(@, parentAction, newNode)],
              node |-> newNode, state |-> nextState]
    ELSE [tree |-> t, node |-> node, state |-> state]

expand_leaf(b, t, node, state) ==
    IF Len(t[node].untried_actions) > 0
    THEN LET parentAction == t[node].untried_actions[Len(t[node].untried_actions)]
             popped == [t EXCEPT ![node].untried_actions = Pop(@)]
             nextState == next_state(b, state, parentAction)
             actionList == legal_actions(b, nextState)
             newNode == Len(popped) + 1
             t2 == Append(popped, MCTSNode(node, parentAction, actionList))
         IN  [tree |-> [t2 EXCEPT ![node].child_nodes = DictSet(@, parentAction, newNode)],
              node |-> newNode, state |-> nextState]
    ELSE [tree |-> t, node |-> node, state |-> state]

-----------------------------------------------------------------------------
(* rollout, lines 89-149.                                                  *)

\* Without the test of lines 125-126.
RECURSIVE rollout_scan_noloss(_, _, _, _, _)
rollout_scan_noloss(b, state, acts, i, validActions) ==
    IF i > Len(acts)
    THEN [nextAction |-> None, validActions |-> validActions]
    ELSE LET action == acts[i]
             nextState == next_state(b, state, action)
             nextStateScore == points_values(b, nextState)
             currPlayer == current_player(b, state)
             R == action[1]
             C == action[2]
             nextStateBoxes == owned_boxes(b, nextState)
         IN  IF nextStateScore # None /\ nextStateScore[currPlayer] = 1
             THEN [nextAction |-> action, validActions |-> validActions]
             ELSE IF nextStateBoxes[<<R, C>>] = currPlayer
             THEN [nextAction |-> action, validActions |-> validActions]
             ELSE IF nextStateBoxes[<<R, C>>] = 3 - currPlayer
             THEN rollout_scan_noloss(b, state, acts, i + 1, validActions)
             ELSE rollout_scan_noloss(b, state, acts, i + 1, Append(validActions, action))

\* The loop of lines 112-141 from the i-th legal action on.
RECURSIVE rollout_scan(_, _, _, _, _)
rollout_scan(b, state, acts, i, validActions) ==
    IF i > Len(acts)
    THEN [nextAction |-> None, validActions |-> validActions]
    ELSE LET action == acts[i]
             nextState == next_state(b, state, action)
             nextStateScore == points_values(b, nextState)
             currPlayer == current_player(b, state)
             R == action[1]
             C == action[2]
             nextStateBoxes == owned_boxes(b, nextState)
         IN  IF nextStateScore # None /\ nextStateScore[currPlayer] = 1
             THEN [nextAction |-> action, validActions |-> validActions]
             ELSE IF nextStateScore # None /\ nextStateScore[currPlayer] = -1
             THEN rollout_scan(b, state, acts, i + 1, validActions)
             ELSE IF nextStateBoxes[<<R, C>>] = currPlayer
             THEN [nextAction |-> action, validActions |-> validActions]
             ELSE IF nextStateBoxes[<<R, C>>] = 3 - currPlayer
             THEN rollout_scan(b, state, acts, i + 1, validActions)
             ELSE rollout_scan(b, state, acts, i + 1, Append(validActions, action))

\* Lines 110-141 of one pass of the while loop.
rollout_pick(b, state) == rollout_scan(b, state, legal_actions(b, state), 1, <<>>)

-----------------------------------------------------------------------------
(* backpropagate, lines 151-165.                                           *)

\* Only the node itself is updated.
backpropagate_stop(t, node, won) ==
    [t EXCEPT ![node].wins = @ + won, ![node].visits = @ + 1]

\* The value negated from one level to the next.
RECURSIVE backpropagate_flip(_, _, _)
backpropagate_flip(t, node, won) ==
    LET t2 == [t EXCEPT ![node].wins = @ + won, ![node].visits = @ + 1] IN
    IF t[node].parent = 0 THEN t2 ELSE backpropagate_flip(t2, t[node].parent, -won)

\* The walk begins at the parent of the node.
RECURSIVE backpropagate_skipleaf(_, _, _)
backpropagate_skipleaf(t, node, won) ==
    IF t[node].parent = 0 THEN [t EXCEPT ![node].wins = @ + won, ![node].visits = @ + 1]
    ELSE LET p == t[node].parent
             t2 == [t EXCEPT ![p].wins = @ + won, ![p].visits = @ + 1]
         IN  IF t[p].parent = 0 THEN t2 ELSE backpropagate_skipleaf(t2, p, won)

RECURSIVE backpropagate(_, _, _)
backpropagate(t, node, won) ==
    LET t2 == [t EXCEPT ![node].wins = @ + won, ![node].visits = @ + 1] IN
    IF t[node].parent = 0 THEN t2 ELSE backpropagate(t2, t[node].parent, won)

-----------------------------------------------------------------------------
(* get_best_action, lines 184-204.                                         *)

\* Line 200 with >= : the last of the best children is kept.
RECURSIVE BestScan_ge(_, _, _, _, _)
BestScan_ge(t, kids, i, action, bestRate) ==
    IF i > Len(kids) THEN [action |-> action, err |-> ""]
    ELSE LET child == t[kids[i].node] IN
         IF child.visits = 0 THEN [action |-> None, err |-> "ZeroDivisionError"]
         ELSE LET currRate == <<child.wins, child.visits>> IN
              IF ~RateGreater(bestRate, currRate)
              THEN BestScan_ge(t, kids, i + 1, child.parent_action, currRate)
              ELSE BestScan_ge(t, kids, i + 1, action, bestRate)

\* The loop of lines 197-202 from the i-th child on.
RECURSIVE BestScan(_, _, _, _, _)
BestScan(t, kids, i, action, bestRate) ==
    IF i > Len(kids) THEN [action |-> action, err |-> ""]
    ELSE LET child == t[kids[i].node] IN
         IF child.visits = 0 THEN [action |-> None, err |-> "ZeroDivisionError"]
         ELSE LET currRate == <<child.wins, child.visits>> IN
              IF RateGreater(currRate, bestRate)
              THEN BestScan(t, kids, i + 1, child.parent_action, currRate)
              ELSE BestScan(t, kids, i + 1, action, bestRate)

get_best_action_zero(t, root_node) ==
    BestScan(t, t[root_node].child_nodes, 1, None, <<0, 1>>)

get_best_action(t, root_node) ==
    BestScan(t, t[root_node].child_nodes, 1, None, <<SENTINEL, 1>>)

-----------------------------------------------------------------------------
(* think, lines 212-248.                                                   *)

root_node == 1

NoStep == [taken |-> FALSE, from |-> <<>>, validActions |-> <<>>, nextAction |-> None]

\* Lines 222-223: the state after construction, for every board, start
\* state and iteration count within the bounds.
Init ==
    /\ board \in Boards
    /\ current_state \in StartStates(board)
    /\ num_nodes \in 0..MaxNumNodes
    /\ bot_identity = current_player(board, current_state)
    /\ tree = <<MCTSNode(0, None, legal_actions(board, current_state))>>
    /\ pc = "loop"
    /\ iter = 0
    /\ leafNode = 0
    /\ leafState = <<>>
    /\ newLeaf = 0
    /\ newState = <<>>
    /\ best_action = None
    /\ err = ""
    /\ sims = <<>>
    /\ rstep = NoStep
    /\ zeroRet = FALSE

\* Without line 227: the state is the one the last rollout left.
Select_stale ==
    /\ pc = "loop"
    /\ iter < num_nodes
    /\ LET r == traverse_nodes(board, tree, root_node,
                               IF iter = 0 THEN current_state ELSE newState,
                               bot_identity) IN
       /\ leafNode' = r.node
       /\ leafState' = r.state
       /\ zeroRet' = (zeroRet \/ r.zero)
       /\ err' = r.err
       /\ pc' = IF r.err = "" THEN "expand" ELSE "crashed"
    /\ UNCHANGED <<board, current_state, num_nodes, bot_identity, tree, iter, newLeaf,
                   newState, best_action, sims, rstep>>

\* Lines 225-233: the loop goes on, and traverse_nodes runs from the root.
Select ==
    /\ pc = "loop"
    /\ iter < num_nodes
    /\ LET r == traverse_nodes(board, tree, root_node, current_state, bot_identity) IN
       /\ leafNode' = r.node
       /\ leafState' = r.state
       /\ zeroRet' = (zeroRet \/ r.zero)
       /\ err' = r.err
       /\ pc' = IF r.err = "" THEN "expand" ELSE "crashed"
    /\ UNCHANGED <<board, current_state, num_nodes, bot_identity, tree, iter, newLeaf,
                   newState, best_action, sims, rstep>>

\* Line 235.
Expand ==
    /\ pc = "expand"
    /\ LET r == expand_leaf(board, tree, leafNode, leafState) IN
       /\ tree' = r.tree
       /\ newLeaf' = r.node
       /\ newState' = r.state
    /\ pc' = "rollout"
    /\ UNCHANGED <<board, current_state, num_nodes, bot_identity, iter, leafNode,
                   leafState, best_action, err, sims, rstep, zeroRet>>

\* Lines 109-147: one pass of the while loop of rollout; choice draws any
\* element of validActions and raises IndexError on an empty list.
RolloutStep ==
    /\ pc = "rollout"
    /\ ~is_ended(board, newState)
    /\ LET r == rollout_pick(board, newState) IN
       \/ /\ r.nextAction # None
          /\ newState' = next_state(board, newState, r.nextAction)
          /\ rstep' = [taken |-> TRUE, from |-> newState,
                       validActions |-> r.validActions, nextAction |-> r.nextAction]
          /\ UNCHANGED <<pc, err>>
       \/ /\ r.nextAction = None
          /\ \E k \in 1..Len(r.validActions) :
                /\ newState' = next_state(board, newState, r.validActions[k])
                /\ rstep' = [taken |-> TRUE, from |-> newState,
                             validActions |-> r.validActions,
                             nextAction |-> r.validActions[k]]
          /\ UNCHANGED <<pc, err>>
       \/ /\ r.nextAction = None
          /\ r.validActions = <<>>
          /\ pc' = "crashed"
          /\ err' = "IndexError"
          /\ rstep' = [taken |-> TRUE, from |-> newState,
                       validActions |-> r.validActions, nextAction |-> None]
          /\ UNCHANGED newState
    /\ UNCHANGED <<board, current_state, num_nodes, bot_identity, tree, iter, leafNode,
                   leafState, newLeaf, best_action, sims, zeroRet>>

\* Lines 149 and 239-241: rollout returns the ended state, its value for
\* the bot is read and backpropagated; the iteration is complete.
Backpropagate ==
    /\ pc = "rollout"
    /\ is_ended(board, newState)
    /\ LET winValue == points_values(board, newState) IN
       /\ tree' = backpropagate(tree, newLeaf, winValue[bot_identity])
       /\ sims' = Append(sims, [node |-> newLeaf, won |-> winValue[bot_identity]])
    /\ iter' = iter + 1
    /\ pc' = "loop"
    /\ UNCHANGED <<board, current_state, num_nodes, bot_identity, leafNode, leafState,
                   newLeaf, newState, best_action, err, rstep, zeroRet>>

\* Lines 245-248: the loop is over and get_best_action gives the result.
Recommend ==
    /\ pc = "loop"
    /\ iter >= num_nodes
    /\ LET r == get_best_action(tree, root_node) IN
       /\ best_action' = r.action
       /\ err' = r.err
       /\ pc' = IF r.err = "" THEN "done" ELSE "crashed"
    /\ UNCHANGED <<board, current_state, num_nodes, bot_identity, tree, iter, leafNode,
                   leafState, newLeaf, newState, sims, rstep, zeroRet>>

Next == Select \/ Expand \/ RolloutStep \/ Backpropagate \/ Recommend

Spec == Init /\ [][Next]_vars

-----------------------------------------------------------------------------
(* Helpers of the properties.                                              *)

Nodes == 1..Len(tree)

\* The node and its ancestors, by the parent references.
RECURSIVE PathToRoot(_, _)
PathToRoot(t, n) == IF n = 0 THEN {} ELSE {n} \cup PathToRoot(t, t[n].parent)

\* The actions from the root to the node.
RECURSIVE ActionsTo(_, _)
ActionsTo(t, n) ==
    IF t[n].parent = 0 THEN <<>>
    ELSE Append(ActionsTo(t, t[n].parent), t[n].parent_action)

\* The game state a node represents.
StateOf(t, n) == current_state \o ActionsTo(t, n)

SeqSet(s) == {s[i] : i \in 1..Len(s)}

TypeOK ==
    /\ pc \in {"loop", "expand", "rollout", "done", "crashed"}
    /\ iter \in 0..num_nodes
    /\ (pc = "crashed") = (err # "")

-----------------------------------------------------------------------------
(* Properties.                                                             *)

\* The completed simulations whose backpropagated path contained n.
Through(n) == {i \in 1..Len(sims) : n \in PathToRoot(tree, sims[i].node)}

\* C1 - Tree accounting: after k completed iterations the root has k visits,
\* and every node has as many visits as there were iterations among those k
\* whose path from the simulation endpoint up to the root contained it.
C1_TreeAccounting ==
    /\ Len(sims) = iter
    /\ tree[root_node].visits = iter
    /\ \A n \in Nodes : tree[n].visits = Cardinality(Through(n))

\* Three iterations are complete, one node was on two paths and another on one.
C1_Witness ==
    /\ iter >= 3
    /\ \E n, m \in Nodes \ {root_node} : tree[n].visits = 2 /\ tree[m].visits = 1

\* C2 - Partition invariant: in every state of think, for every node the
\* untried actions and the keys of child_nodes are disjoint and together
\* are the legal actions of the state the node represents.
C2_Partition ==
    \A n \in Nodes :
        LET untried == SeqSet(tree[n].untried_actions)
            keys == SeqSet(DictKeys(tree[n].child_nodes))
        IN  /\ untried \cap keys = {}
            /\ untried \cup keys = SeqSet(legal_actions(board, StateOf(tree, n)))

\* Inside an iteration, right after expand_leaf, a node has a child and an
\* untried action left, and a node below the root has a child too.
C2_Witness ==
    /\ pc = "rollout"
    /\ \E n \in Nodes : tree[n].untried_actions # <<>> /\ tree[n].child_nodes # <<>>
    /\ \E n \in Nodes \ {root_node} : tree[n].child_nodes # <<>>

\* C3 - Backprop conservation: one call of backpropagate(node, v) adds v to
\* wins and 1 to visits of node and of each ancestor up to the root, the same
\* v at every level, and changes nothing else in the tree.
C3_BackpropConservation ==
    [][(pc = "rollout" /\ pc' = "loop") =>
         LET v == points_values(board, newState)[bot_identity]
             path == PathToRoot(tree, newLeaf)
         IN  /\ Len(tree') = Len(tree)
             /\ root_node \in path
             /\ \A n \in Nodes :
                   IF n \in path
                   THEN tree'[n] = [tree[n] EXCEPT !.wins = @ + v, !.visits = @ + 1]
                   ELSE tree'[n] = tree[n]]_vars

\* A backpropagate of a win or a loss has just run from a node two levels
\* below the root (both players move on the path), with a node off the path.
C3_Witness ==
    /\ pc = "loop"
    /\ iter >= 1
    /\ LET last == sims[Len(sims)] IN
       /\ last.won # 0
       /\ Cardinality(PathToRoot(tree, last.node)) >= 3
       /\ Nodes \ PathToRoot(tree, last.node) # {}

\* C4 - Recommendation soundness: think on a state that has not ended, with
\* at least one iteration, returns the parent_action of a direct child of the
\* root that has visits > 0, which is a legal action of that state.
C4_RecommendationSound ==
    (pc = "done" /\ ~is_ended(board, current_state) /\ num_nodes >= 1) =>
        /\ \E i \in 1..Len(tree[root_node].child_nodes) :
              LET c == tree[root_node].child_nodes[i].node IN
              /\ tree[c].parent = root_node
              /\ tree[c].parent_action = best_action
              /\ tree[root_node].child_nodes[i].key = best_action
              /\ tree[c].visits > 0
        /\ best_action \in SeqSet(legal_actions(board, current_state))

\* think returned on such a state with several children under the root, the
\* recommended one not the first and with a win rate that is not positive.
C4_Witness ==
    /\ pc = "done"
    /\ ~is_ended(board, current_state)
    /\ num_nodes >= 1
    /\ Len(tree[root_node].child_nodes) >= 2
    /\ best_action # tree[root_node].child_nodes[1].key
    /\ \A i \in 1..Len(tree[root_node].child_nodes) :
          tree[tree[root_node].child_nodes[i].node].wins <= 0

\* C5 - Terminal nodes are never expanded: expand_leaf creates a child only
\* when the state at which traverse_nodes stopped has not ended and is a
\* no-op only when it has ended, so that no node whose state has ended has
\* an entry in child_nodes (think being given a state that has not ended).
C5_TerminalNeverExpanded ==
    ~is_ended(board, current_state) =>
        /\ pc = "rollout" => ((newLeaf # leafNode) <=> ~is_ended(board, leafState))
        /\ \A n \in Nodes :
              is_ended(board, StateOf(tree, n)) => tree[n].child_nodes = <<>>

\* An action that ends the game with +1 for the player to move in state.
Wins(state, action) ==
    LET score == points_values(board, next_state(board, state, action)) IN
    score # None /\ score[current_player(board, state)] = 1

\* An action that ends the game with -1 for the player to move in state.
Loses(state, action) ==
    LET score == points_values(board, next_state(board, state, action)) IN
    score # None /\ score[current_player(board, state)] = -1

\* C6 - Immediate win in the rollout: in every step of rollout from a state
\* in which some legal action wins the game for the player to move, the
\* action the step applies is a winning one.
C6_ImmediateWin ==
    (rstep.taken /\ \E a \in SeqSet(legal_actions(board, rstep.from)) :
                       Wins(rstep.from, a))
        => (rstep.nextAction # None /\ Wins(rstep.from, rstep.nextAction))

\* C7 - Immediate loss avoidance in the rollout: in every step of rollout an
\* action that ends the game with -1 for the player to move is not put in
\* validActions and is not the action the step applies.
C7_LossAvoided ==
    rstep.taken =>
        \A a \in SeqSet(legal_actions(board, rstep.from)) :
            Loses(rstep.from, a) =>
                a \notin SeqSet(rstep.validActions) /\ a # rstep.nextAction

\* A step of rollout had a losing action first among its legal actions and
\* applied another one that it drew from validActions.
C7_Witness ==
    /\ rstep.taken
    /\ Len(legal_actions(board, rstep.from)) >= 2
    /\ Loses(rstep.from, legal_actions(board, rstep.from)[1])
    /\ rstep.nextAction \in SeqSet(rstep.validActions)

\* C8 - Empty recommendation: when the root has no children at the end of
\* think, the caller gets a no-decision error and no value is returned.
C8_EmptyRecommendationFails ==
    tree[root_node].child_nodes = <<>> => pc # "done"

\* C9 - Single legal action: think on a state that has not ended and has
\* exactly one legal action returns that action, for every num_nodes.
C9_SingleActionReturned ==
    (pc = "done" /\ ~is_ended(board, current_state)
         /\ Len(legal_actions(board, current_state)) = 1)
        => best_action = legal_actions(board, current_state)[1]

\* C10 - No division by zero: at the start of every iteration, and when
\* get_best_action runs, every node but the root has visits >= 1 and so has
\* the parent of every node; ucb and get_best_action never divide by zero,
\* log never gets 0, and the return of line 39 is never taken.
C10_NoDivisionByZero ==
    /\ pc = "loop" =>
          \A n \in Nodes \ {root_node} :
              tree[n].visits >= 1 /\ tree[tree[n].parent].visits >= 1
    /\ err \notin {"ZeroDivisionError", "ValueError"}
    /\ ~zeroRet

\* traverse_nodes went down from a root with several children by their ucb,
\* and get_best_action has divided by the visits of each of them.
C10_Witness ==
    /\ pc = "done"
    /\ Len(tree[root_node].child_nodes) >= 2
    /\ leafNode # root_node
    /\ tree[newLeaf].parent = leafNode

\* The depth of a node: 0 for the root.
Depth(n) == Len(ActionsTo(tree, n))

\* C11 - UCB perspective law: at a node whose state has the bot to move, a
\* child scores strictly higher with more wins and the same visits, and at a
\* node where the opponent moves strictly lower; traverse_nodes picks the
\* branch by bot_identity = current_player(state of the parent node).
C11_UcbPerspective ==
    \A c \in Nodes \ {root_node} :
        LET p == tree[c].parent
            s == StateOf(tree, p)
            more == [tree EXCEPT ![c].wins = @ + 1]
            own == (current_player(board, s) = bot_identity)
        IN  (tree[c].visits >= 1 /\ tree[p].visits >= 1) =>
              /\ own => ChildUCB(board, more, c, s, bot_identity)
                          > ChildUCB(board, tree, c, s, bot_identity)
              /\ ~own => ChildUCB(board, more, c, s, bot_identity)
                           < ChildUCB(board, tree, c, s, bot_identity)
              /\ \A d \in Nodes \ {root_node} :
                    (tree[d].parent = p /\ tree[d].visits = tree[c].visits
                         /\ tree[d].wins > tree[c].wins) =>
                       IF own
                       THEN ChildUCB(board, tree, d, s, bot_identity)
                              > ChildUCB(board, tree, c, s, bot_identity)
                       ELSE ChildUCB(board, tree, d, s, bot_identity)
                              < ChildUCB(board, tree, c, s, bot_identity)

\* traverse_nodes has scored the children of the root, where the bot moves,
\* and then the child of a node below the root, where the opponent moves.
C11_Witness ==
    /\ pc = "expand"
    /\ Depth(leafNode) = 2
    /\ Len(tree[root_node].child_nodes) >= 2
    /\ current_player(board, StateOf(tree, tree[leafNode].parent)) # bot_identity

\* The tree after k iterations as the functions of the search give it from
\* think's arguments and the values of the first k rollouts alone.
RECURSIVE Replay(_)
Replay(k) ==
    IF k = 0 THEN <<MCTSNode(0, None, legal_actions(board, current_state))>>
    ELSE LET t == Replay(k - 1)
             r == traverse_nodes(board, t, root_node, current_state,
                                 current_player(board, current_state))
             e == expand_leaf(board, t, r.node, r.state)
         IN  backpropagate(e.tree, e.node, sims[k].won)

C13_SelectorPostcondition ==
    [][(pc = "loop" /\ pc' = "expand") =>
          /\ tree' = tree
          /\ leafNode' \in Nodes
          /\ Len(tree[leafNode'].untried_actions) >= 1 \/ is_ended(board, leafState')
          /\ leafState' = StateOf(tree, leafNode')]_vars

\* traverse_nodes returned, after two descents, a node without untried
\* actions whose state has ended; an earlier call had returned the root.
C13_Witness ==
    /\ pc = "expand"
    /\ Depth(leafNode) = 2
    /\ tree[leafNode].untried_actions = <<>>
    /\ is_ended(board, leafState)
    /\ sims[1].node # root_node

\* C14 - Rollout never exhausts its candidates: in every step of rollout an
\* action is chosen by a short-circuit or validActions is not empty, so
\* choice never gets an empty list.
C14_RolloutNeverExhausts ==
    /\ rstep.taken => (rstep.nextAction # None \/ rstep.validActions # <<>>)
    /\ err # "IndexError"

\* The children of the root, in the order of child_nodes.
RootKids == tree[root_node].child_nodes

\* The i-th child of the root has a greater win rate than the j-th.
KidBeats(i, j) ==
    tree[RootKids[i].node].wins * tree[RootKids[j].node].visits
        > tree[RootKids[j].node].wins * tree[RootKids[i].node].visits

\* C15 - Recommender is an argmax: get_best_action returns the parent_action
\* of the direct child of the root with the greatest wins / visits, the first
\* inserted among equals, and changes no node; a root with a child never
\* gives None.
C15_RecommenderArgmax ==
    [][(pc = "loop" /\ pc' \in {"done", "crashed"}) =>
          /\ tree' = tree
          /\ pc' = "done"
          /\ RootKids # <<>> =>
                \E i \in 1..Len(RootKids) :
                    /\ best_action' = tree[RootKids[i].node].parent_action
                    /\ best_action' # None
                    /\ \A j \in 1..Len(RootKids) : ~KidBeats(j, i)
                    /\ \A j \in 1..(i - 1) : KidBeats(i, j)]_vars

\* think returned the action of a child that is not the first of the root,
\* a later child having the same win rate and another a smaller one.
C15_Witness ==
    /\ pc = "done"
    /\ \E i, j, k \in 1..Len(RootKids) :
          /\ 1 < i /\ i < j
          /\ best_action = RootKids[i].key
          /\ ~KidBeats(i, j) /\ ~KidBeats(j, i)
          /\ KidBeats(i, k)

\* C16 - Expander effect: expand_leaf on a node with untried actions removes
\* the last one, a, and keeps the others in order, adds the one entry
\* child_nodes[a], a new node with parent node, parent_action a, and the
\* legal actions of next_state(state, a) untried, returns it with that state
\* and changes no other node; with no untried action it returns its
\* arguments and changes nothing.
C16_ExpanderEffect ==
    [][(pc = "expand" /\ pc' = "rollout") =>
          LET untried == tree[leafNode].untried_actions IN
          IF untried # <<>>
          THEN LET a == untried[Len(untried)]
                   child == Len(tree) + 1
               IN  /\ Len(tree') = Len(tree) + 1
                   /\ tree'[leafNode].untried_actions = SubSeq(untried, 1, Len(untried) - 1)
                   /\ tree'[leafNode].child_nodes
                        = Append(tree[leafNode].child_nodes, [key |-> a, node |-> child])
                   /\ tree'[leafNode].parent = tree[leafNode].parent
                   /\ tree'[leafNode].parent_action = tree[leafNode].parent_action
                   /\ tree'[leafNode].wins = tree[leafNode].wins
                   /\ tree'[leafNode].visits = tree[leafNode].visits
                   /\ tree'[child] = [parent |-> leafNode, parent_action |-> a,
                                      child_nodes |-> <<>>, wins |-> 0, visits |-> 0,
                                      untried_actions |->
                                        legal_actions(board, next_state(board, leafState, a))]
                   /\ \A n \in Nodes \ {leafNode} : tree'[n] = tree[n]
                   /\ newLeaf' = child
                   /\ newState' = next_state(board, leafState, a)
          ELSE tree' = tree /\ newLeaf' = leafNode /\ newState' = leafState]_vars

\* expand_leaf has just added a second child to a node that still has an
\* untried action, the new node having untried actions too.
C16_Witness ==
    /\ pc = "rollout"
    /\ newLeaf # leafNode
    /\ newLeaf = Len(tree)
    /\ newState = StateOf(tree, newLeaf)
    /\ tree[leafNode].untried_actions # <<>>
    /\ Len(tree[leafNode].child_nodes) >= 2
    /\ tree[newLeaf].untried_actions # <<>>

\* The k-th ancestor of a node by the parent references, 0 above the root.
RECURSIVE Ancestor(_, _)
Ancestor(n, k) ==
    IF k = 0 \/ n = 0 THEN n ELSE Ancestor(tree[n].parent, k - 1)

\* The nodes form a tree rooted at root_node, each child made once.
TreeShape ==
    /\ tree[root_node].parent = 0
    /\ tree[root_node].parent_action = None
    /\ \A n \in Nodes \ {root_node} :
          /\ tree[n].parent \in Nodes
          /\ \E i \in 1..Len(tree[tree[n].parent].child_nodes) :
                tree[tree[n].parent].child_nodes[i]
                    = [key |-> tree[n].parent_action, node |-> n]
          /\ \E k \in 1..Len(tree) :
                /\ Ancestor(n, k) = root_node
                /\ \A i, j \in 0..k : Ancestor(n, i) = Ancestor(n, j) => i = j
    /\ \A n \in Nodes :
          \A i, j \in 1..Len(tree[n].child_nodes) :
              tree[n].child_nodes[i].key = tree[n].child_nodes[j].key => i = j
    /\ \A n, m \in Nodes \ {root_node} :
          (tree[n].parent = tree[m].parent
               /\ tree[n].parent_action = tree[m].parent_action) => n = m

\* C17 as stated - Tree shape: in every reachable state of think the nodes
\* form a tree rooted at root_node, a child is created at most once per node
\* and action, and the tree has at most 1 + (completed iterations) nodes.
C17_TreeShapeOriginal ==
    /\ TreeShape
    /\ Len(tree) <= 1 + iter

\* C17 as amended: the tree shape holds in every reachable state; the tree
\* has at most 1 + (completed iterations) nodes between iterations, and at
\* most one more while an iteration is in progress.
C17_TreeShape ==
    /\ TreeShape
    /\ Len(tree) <= 2 + iter
    /\ pc \in {"loop", "expand", "done"} => Len(tree) <= 1 + iter

\* Between two iterations the tree has a node two levels below the root and
\* as many nodes as the bound allows.
C17_Witness ==
    /\ pc = "loop"
    /\ iter >= 3
    /\ Len(tree) = 1 + iter
    /\ \E n \in Nodes : Depth(n) = 2

\* C18 - Termination: every call of traverse_nodes and of rollout inside
\* think ends, rollout returns an ended state, and think returns after exactly
\* num_nodes iterations: think never stops anywhere but at its return.
C18_Terminates ==
    /\ (pc = "done" /\ iter = num_nodes) \/ ENABLED Next
    /\ (pc = "loop" /\ iter >= 1) => points_values(board, newState) # None

\* The sum of the visits of the children in a child_nodes from the i-th on.
RECURSIVE KidVisits(_, _)
KidVisits(kids, i) ==
    IF i > Len(kids) THEN 0 ELSE tree[kids[i].node].visits + KidVisits(kids, i + 1)

\* The completed simulations whose endpoint was n.
EndedAt(n) == {i \in 1..Len(sims) : sims[i].node = n}

\* C19 - Visit conservation between levels: after any number of completed
\* iterations the visits of the children of a node sum to at most its visits,
\* the difference being the number of iterations that ended at the node
\* itself: 0 for a root whose state has not ended, 1 for every other node
\* whose state has not ended; the visits of the children of such a root sum
\* to the number of completed iterations.
C19_VisitConservation ==
    pc \in {"loop", "done"} =>
        /\ \A n \in Nodes :
              LET below == KidVisits(tree[n].child_nodes, 1) IN
              /\ below <= tree[n].visits
              /\ tree[n].visits - below = Cardinality(EndedAt(n))
              /\ ~is_ended(board, StateOf(tree, n)) =>
                    tree[n].visits - below = IF n = root_node THEN 0 ELSE 1
        /\ ~is_ended(board, current_state) =>
              KidVisits(tree[root_node].child_nodes, 1) = iter

\* After four iterations a node below the root whose state has not ended
\* has a visited child, and a node whose state has ended was the endpoint
\* of two iterations.
C19_Witness ==
    /\ pc = "loop"
    /\ iter >= 4
    /\ ~is_ended(board, current_state)
    /\ \E n \in Nodes \ {root_node} :
          ~is_ended(board, StateOf(tree, n)) /\ tree[n].visits >= 2
    /\ \E n \in Nodes : Cardinality(EndedAt(n)) >= 2

\* The sum of the values of the completed simulations in the set.
RECURSIVE WonSum(_)
WonSum(S) ==
    IF S = {} THEN 0
    ELSE LET i == CHOOSE j \in S : TRUE IN sims[i].won + WonSum(S \ {i})

\* C20 - Win bound: after any number of completed iterations every node has
\* -visits <= wins <= visits, wins being the sum of the values, each -1, 0 or
\* 1, of the iterations through it; both forms of the score of a visited
\* child are above the sentinel, and traverse_nodes never ends its loop with
\* bestNode None.
C20_WinBound ==
    /\ \A n \in Nodes :
          /\ -tree[n].visits <= tree[n].wins
          /\ tree[n].wins <= tree[n].visits
          /\ tree[n].wins = WonSum(Through(n))
    /\ \A i \in 1..Len(sims) : sims[i].won \in {-1, 0, 1}
    /\ \A n \in Nodes \ {root_node} :
          (tree[n].visits >= 1 /\ tree[tree[n].parent].visits >= 1) =>
              /\ ucb(tree, n, TRUE) > SENTINEL * Milli
              /\ ucb(tree, n, FALSE) > SENTINEL * Milli
              /\ (tree[n].wins * Milli) \div tree[n].visits \in (-Milli)..Milli
              /\ Milli - (tree[n].wins * Milli) \div tree[n].visits \in 0..(2 * Milli)
    /\ err # "TypeError"

\* traverse_nodes chose among the children of a root that has a child with
\* wins = visits and a child with wins = -visits.
C20_Witness ==
    /\ pc = "expand"
    /\ leafNode # root_node
    /\ \E c, d \in Nodes :
          /\ tree[c].parent = root_node /\ tree[d].parent = root_node
          /\ tree[c].wins = tree[c].visits /\ tree[d].wins = -tree[d].visits

====
